---- MODULE Spec2Model ----
(***************************************************************************)
(* IBM Model 1 (src/IBMModel1.py): the class IBMModel1 as a state machine. *)
(*                                                                         *)
(* State: the object's fields corpus, trans_prob and conditional_dict, the *)
(* lines the constructor read, and the last call with what it returned.    *)
(* Python floats are modelled as binary fixed-point numbers: the integer v *)
(* stands for v / Scale, addition is exact and division rounds to nearest. *)
(* A dict is a sequence of <<key, value>> pairs in insertion order.        *)
(***************************************************************************)
EXTENDS Integers, Sequences, FiniteSets, TLC

VARIABLES lines, corpus, num_f_words, trans_prob, conditional_dict, ret,
          iters, builds

vars == <<lines, corpus, num_f_words, trans_prob, conditional_dict, ret,
          iters, builds>>

(***************************************************************************)
(* Bounds of the model.                                                    *)
(***************************************************************************)
MaxLines == 2      \* num_sentences ranges over 1..MaxLines
MaxTrain == 2      \* EM iterations run over the object's lifetime
MaxBuilds == 2     \* calls of cond_dict

(***************************************************************************)
(* Fixed-point floats.                                                     *)
(***************************************************************************)
Scale == 2^12
Half == Scale \div 2

\* a / b on floats, rounded to nearest
FDiv(a, b) == (a * Scale + (b \div 2)) \div b

(***************************************************************************)
(* Tokens and the aligned lines the two corpus files may hold, already     *)
(* tokenized and prefixed with "NULL" (lines 40-41).                       *)
(***************************************************************************)
EWords == {"NULL", "dog", "cat"}
FWords == {"NULL", "perro", "gato"}

ToySent == <<(<<"NULL", "dog">>), (<<"NULL", "perro">>)>>

LinePool ==
  { ToySent,
    <<(<<"NULL">>), (<<"NULL", "perro">>)>>,
    <<(<<"NULL", "dog", "cat">>), (<<"NULL", "gato">>)>>,
    <<(<<"NULL", "dog">>), (<<"NULL", "perro", "perro">>)>> }

\* the keys the caller looks up in the table train_model returned
LookupKeys == { <<"cat", "perro">> }

\* the values of iteration_count and of num_iterations the caller passes
IterationCounts == {0, 1, 2}
ReportSizes == {0, 2}

LineSeqs == UNION { [1..n -> LinePool] : n \in 1..MaxLines }

(***************************************************************************)
(* Dicts in insertion order.                                               *)
(***************************************************************************)
Keys(d) == { d[i][1] : i \in 1..Len(d) }
HasKey(d, k) == \E i \in 1..Len(d) : d[i][1] = k
IndexOf(d, k) == CHOOSE i \in 1..Len(d) : d[i][1] = k
ValueOf(d, k) == d[IndexOf(d, k)][2]

\* d[k] = v on a dict: an existing key keeps its place, a new key is appended
SetItem(d, k, v) ==
  IF HasKey(d, k) THEN [d EXCEPT ![IndexOf(d, k)] = <<k, v>>]
                  ELSE Append(d, <<k, v>>)

\* d[k] += v on a defaultdict(float), as a function over the keys touched
Accumulate(d, k, v) ==
  IF k \in DOMAIN d THEN [d EXCEPT ![k] = @ + v]
                    ELSE d @@ (k :> v)

EmptyAcc == [x \in {} |-> 0]

(***************************************************************************)
(* initialize_corpus: corpus[sentence1] = sentence2 for each line read.    *)
(***************************************************************************)
RECURSIVE LoadCorpus(_, _)
LoadCorpus(ls, n) ==
  IF n = 0 THEN <<>>
  ELSE SetItem(LoadCorpus(ls, n - 1), ls[n][1], ls[n][2])

initialize_corpus(ls) == LoadCorpus(ls, Len(ls))

(***************************************************************************)
(* initialize_translation_probability: the default of the defaultdict.     *)
(***************************************************************************)
FTypes(c) == UNION { { c[i][2][j] : j \in 1..Len(c[i][2]) } : i \in 1..Len(c) }

\* len(set(f_word for ... in self.corpus.items() for f_word in foreign_sent))
CountFWords(c) == Cardinality(FTypes(c))

\* a count of the source tokens, not of their types: len(list) for len(set)
RECURSIVE TokenCount(_, _)
TokenCount(c, k) == IF k = 0 THEN 0 ELSE TokenCount(c, k - 1) + Len(c[k][2])

CountFWordTokens(c) == TokenCount(c, Len(c))

initialize_num_f_words(c) == CountFWords(c)

\* the int n as a float
ToFloat(n) == n * Scale

\* float(1//num_f_words): integer division before the conversion
DefaultProbFloorDiv(n) == ToFloat(1 \div n)

\* float(1/num_f_words), the value the default factory returns
DefaultProb(n) == FDiv(ToFloat(1), ToFloat(n))

\* self.trans_prob[key]: a missing key is inserted with the default
GetItem(tp, key, n) == IF HasKey(tp, key) THEN tp ELSE Append(tp, <<key, DefaultProb(n)>>)

(***************************************************************************)
(* train_model.                                                            *)
(***************************************************************************)
\* the (e_word, f_word) pairs of one sentence pair in the order of the
\* nested loops of lines 66-67 and 69-70
SentPairs(E, F) ==
  [k \in 1..(Len(E) * Len(F)) |->
      <<E[((k - 1) \div Len(F)) + 1], F[((k - 1) % Len(F)) + 1]>>]

\* lines 66-68 over the first k pairs of a sentence pair
RECURSIVE Pass1(_, _, _, _, _)
Pass1(tp, st, ps, n, k) ==
  IF k = 0 THEN [tp |-> tp, st |-> st]
  ELSE LET r == Pass1(tp, st, ps, n, k - 1)
           tp1 == GetItem(r.tp, ps[k], n)
       IN [tp |-> tp1, st |-> Accumulate(r.st, ps[k][1], ValueOf(tp1, ps[k]))]

\* lines 69-72 over the first k pairs of a sentence pair
RECURSIVE Pass2(_, _, _, _, _, _)
Pass2(cnt, tot, tp, st, ps, k) ==
  IF k = 0 THEN [cnt |-> cnt, tot |-> tot]
  ELSE LET r == Pass2(cnt, tot, tp, st, ps, k - 1)
           q == FDiv(ValueOf(tp, ps[k]), st[ps[k][1]])
       IN [cnt |-> Accumulate(r.cnt, ps[k], q),
           tot |-> Accumulate(r.tot, ps[k][2], q)]

\* lines 62-72 after the first k sentence pairs of the corpus: sentence_total
\* is created once per iteration (line 64), outside the loop over the pairs
RECURSIVE EStep(_, _, _, _)
EStep(c, tp, n, k) ==
  IF k = 0 THEN [tp |-> tp, st |-> EmptyAcc, cnt |-> EmptyAcc, tot |-> EmptyAcc]
  ELSE LET r == EStep(c, tp, n, k - 1)
           ps == SentPairs(c[k][1], c[k][2])
           a == Pass1(r.tp, r.st, ps, n, Len(ps))
           b == Pass2(r.cnt, r.tot, a.tp, a.st, ps, Len(ps))
       IN [tp |-> a.tp, st |-> a.st, cnt |-> b.cnt, tot |-> b.tot]

\* lines 73-74 over the first k items of trans_prob: every key of
\* count_e_given_f is a key of trans_prob by now, and keeps its place
RECURSIVE MStepTo(_, _, _, _)
MStepTo(tp, cnt, tot, k) ==
  IF k = 0 THEN <<>>
  ELSE Append(MStepTo(tp, cnt, tot, k - 1),
              IF tp[k][1] \in DOMAIN cnt
                THEN <<tp[k][1], FDiv(cnt[tp[k][1]], tot[tp[k][1][2]])>>
                ELSE tp[k])

MStep(tp, cnt, tot) == MStepTo(tp, cnt, tot, Len(tp))

\* one pass of the loop body of line 61
Iteration(c, tp, n) ==
  LET r == EStep(c, tp, n, Len(c)) IN MStep(r.tp, r.cnt, r.tot)

\* for i in range(iteration_count + 1): one pass too many
RECURSIVE IterateInclusive(_, _, _, _)
IterateInclusive(c, tp, n, count) ==
  IF count < 0 THEN tp
  ELSE CHOOSE r \in { IterateInclusive(c, next, n, count - 1) : next \in {Iteration(c, tp, n)} } : TRUE

\* for i in range(iteration_count); each pass is evaluated before the next starts
RECURSIVE Iterate(_, _, _, _)
Iterate(c, tp, n, count) ==
  IF count = 0 THEN tp
  ELSE CHOOSE r \in { Iterate(c, next, n, count - 1) : next \in {Iteration(c, tp, n)} } : TRUE

(***************************************************************************)
(* cond_dict and get_max.                                                  *)
(***************************************************************************)
\* self.conditional_dict[f_word].append(item) on a defaultdict(list)
CondAppend(cd, f, item) ==
  IF f \in DOMAIN cd THEN [cd EXCEPT ![f] = Append(@, item)]
                     ELSE cd @@ (f :> <<item>>)

\* lines 83-84 over the first k items of trans_prob
RECURSIVE BuildIndex(_, _, _)
BuildIndex(cd, tp, k) ==
  IF k = 0 THEN cd
  ELSE CondAppend(BuildIndex(cd, tp, k - 1), tp[k][1][2], <<tp[k][1][1], tp[k][2]>>)

\* self.conditional_dict[f_word] read on a defaultdict(list)
CondList(cd, f) ==
  IF f \in DOMAIN cd THEN cd
                     ELSE cd @@ (f :> <<>>)

\* lines 92-95 over the first k elements of the list
RECURSIVE MaxOf(_, _)
MaxOf(list, k) ==
  IF k = 0 THEN <<"None", 0>>
  ELSE LET maxi == MaxOf(list, k - 1)
       IN IF list[k][2] > maxi[2] THEN list[k] ELSE maxi

(***************************************************************************)
(* print: the rows in the order printed.                                   *)
(***************************************************************************)
\* sorted(..., key=itemgetter(1), reverse=True) is stable
InsertDesc(s, x) ==
  LET p == Cardinality({ i \in 1..Len(s) : s[i][2] >= x[2] })
  IN SubSeq(s, 1, p) \o <<x>> \o SubSeq(s, p + 1, Len(s))

RECURSIVE SortedDesc(_, _)
SortedDesc(tp, k) ==
  IF k = 0 THEN <<>> ELSE InsertDesc(SortedDesc(tp, k - 1), tp[k])

Rows(tp, num_iterations) ==
  LET s == SortedDesc(tp, Len(tp))
      m == IF num_iterations < Len(s) THEN num_iterations ELSE Len(s)
  IN [i \in 1..m |-> s[i][1]]

(***************************************************************************)
(* The object after __init__, and its methods.                             *)
(***************************************************************************)
Ret(op, n, key, word, p, rows) ==
  [op |-> op, n |-> n, key |-> key, word |-> word, p |-> p, rows |-> rows]

Init ==
  /\ lines \in LineSeqs
  /\ corpus = initialize_corpus(lines)
  /\ num_f_words = initialize_num_f_words(initialize_corpus(lines))
  /\ trans_prob = <<>>
  /\ conditional_dict = [x \in {} |-> <<>>]
  /\ ret = Ret("__init__", Len(lines), <<>>, "", 0, <<>>)
  /\ iters = 0
  /\ builds = 0

train_model(iteration_count) ==
  /\ iters + iteration_count <= MaxTrain
  /\ trans_prob' = Iterate(corpus, trans_prob, num_f_words, iteration_count)
  /\ ret' = Ret("train_model", iteration_count, <<>>, "", 0, <<>>)
  /\ iters' = iters + iteration_count
  /\ UNCHANGED <<lines, corpus, num_f_words, conditional_dict, builds>>

cond_dict ==
  /\ builds < MaxBuilds
  /\ conditional_dict' = BuildIndex(conditional_dict, trans_prob, Len(trans_prob))
  /\ ret' = Ret("cond_dict", 0, <<>>, "", 0, <<>>)
  /\ builds' = builds + 1
  /\ UNCHANGED <<lines, corpus, num_f_words, trans_prob, iters>>

get_max(f_word) ==
  /\ conditional_dict' = CondList(conditional_dict, f_word)
  /\ LET list == CondList(conditional_dict, f_word)[f_word]
         maxi == MaxOf(list, Len(list))
     IN ret' = Ret("get_max", 0, <<f_word>>, maxi[1], maxi[2], <<>>)
  /\ UNCHANGED <<lines, corpus, num_f_words, trans_prob, iters, builds>>

\* the caller's lookup in the table train_model returned (line 76)
getitem(e_word, f_word) ==
  /\ trans_prob' = GetItem(trans_prob, <<e_word, f_word>>, num_f_words)
  /\ ret' = Ret("getitem", 0, <<e_word, f_word>>, "",
                ValueOf(GetItem(trans_prob, <<e_word, f_word>>, num_f_words),
                        <<e_word, f_word>>), <<>>)
  /\ UNCHANGED <<lines, corpus, num_f_words, conditional_dict, iters, builds>>

print(num_iterations) ==
  /\ ret' = Ret("print", num_iterations, <<>>, "", 0, Rows(trans_prob, num_iterations))
  /\ UNCHANGED <<lines, corpus, num_f_words, trans_prob, conditional_dict,
                 iters, builds>>

Next ==
  \/ \E i \in IterationCounts : train_model(i)
  \/ cond_dict
  \/ \E f \in FWords : get_max(f)
  \/ \E key \in LookupKeys : getitem(key[1], key[2])
  \/ \E i \in ReportSizes : print(i)

Spec == Init /\ [][Next]_vars

(***************************************************************************)
(* What the properties below speak of.                                     *)
(***************************************************************************)
\* get(e, f): the stored value, else the default (no entry is created)
TableGet(tp, key, n) == IF HasKey(tp, key) THEN ValueOf(tp, key) ELSE DefaultProb(n)

\* the pairs (e, f) that occur together in a sentence pair of corpus c
CoOccurring(c) ==
  UNION { { <<c[i][1][a], c[i][2][b]>> : a \in 1..Len(c[i][1]), b \in 1..Len(c[i][2]) }
          : i \in 1..Len(c) }

\* the sum of the stored probabilities of the entries (e, f) of tp, for f
RECURSIVE ColumnSum(_, _, _)
ColumnSum(tp, f, k) ==
  IF k = 0 THEN 0
  ELSE ColumnSum(tp, f, k - 1) + (IF tp[k][1][2] = f THEN tp[k][2] ELSE 0)

\* the stored probabilities of the entries (e, f) of tp, for f
Column(tp, f) == { tp[i][2] : i \in { j \in 1..Len(tp) : tp[j][1][2] = f } }

\* the (target token, probability) pairs of the entries (e, f) of tp, for f
ColumnPairs(tp, f) == { <<tp[i][1][1], tp[i][2]>> : i \in { j \in 1..Len(tp) : tp[j][1][2] = f } }

SetMax(S) == CHOOSE x \in S : \A y \in S : y <= x

Abs(x) == IF x < 0 THEN -x ELSE x

\* rounding: half a unit in the last place for each stored quotient
Tol == Cardinality(EWords)

\* two tables hold the same keys with the same values, within rounding
SameTable(t1, t2) ==
  /\ Keys(t1) = Keys(t2)
  /\ \A key \in Keys(t1) : Abs(ValueOf(t1, key) - ValueOf(t2, key)) <= Tol

\* the orderings of the sentence pairs of corpus c
Orderings(c) ==
  { [i \in 1..Len(c) |-> c[p[i]]] :
      p \in { q \in [1..Len(c) -> 1..Len(c)] : \A a, b \in 1..Len(c) : q[a] = q[b] => a = b } }

\* the evidence of sentence pair k of c alone, from table tp
Shard(c, tp, n, k) == EStep(<<c[k]>>, tp, n, 1)

\* the sum over the sentence pairs of c of the count each gives key alone
RECURSIVE MergedCount(_, _, _, _, _)
MergedCount(c, tp, n, key, k) ==
  IF k = 0 THEN 0
  ELSE MergedCount(c, tp, n, key, k - 1)
         + (IF key \in DOMAIN Shard(c, tp, n, k).cnt THEN Shard(c, tp, n, k).cnt[key] ELSE 0)

\* the sum over f in F, with repetition, of get(e, f)
RECURSIVE OwnTotal(_, _, _, _, _)
OwnTotal(tp, n, e, F, k) ==
  IF k = 0 THEN 0 ELSE OwnTotal(tp, n, e, F, k - 1) + TableGet(tp, <<e, F[k]>>, n)

AllToy == \A i \in 1..Len(lines) : lines[i] = ToySent

(***************************************************************************)
(* The claims.                                                             *)
(***************************************************************************)

\* C1: after every completed training iteration, for every source token f of
\* the corpus, the stored probabilities of the entries (e, f) sum to 1.
C1_Normalization ==
  (ret.op = "train_model" /\ ret.n >= 1) =>
     \A f \in FTypes(corpus) :
        Abs(ColumnSum(trans_prob, f, Len(trans_prob)) - ToFloat(1)) <= Tol

\* C2: a pair never explicitly set reads as exactly 1/|F_types|, the number
\* of distinct source-token types of the corpus, before and after training:
\* the default, what a lookup of such a pair returns, and the value the
\* table keeps for a pair no sentence pair holds.
C2_DefaultValue ==
  LET d == FDiv(ToFloat(1), ToFloat(Cardinality(FTypes(corpus))))
  IN /\ \A e \in EWords, f \in FWords :
          (<<e, f>> \notin CoOccurring(corpus) \/ iters = 0)
             => TableGet(trans_prob, <<e, f>>, num_f_words) = d
     /\ (ret.op = "getitem" /\ (ret.key \notin CoOccurring(corpus) \/ iters = 0))
          => ret.p = d

C2_Witness ==
  /\ ret.op = "getitem"
  /\ ret.key \notin CoOccurring(corpus)
  /\ iters >= 1
  /\ Len(corpus) = 2

\* C3: train_model with iteration_count = 0 leaves every entry of the table
\* as it was: none created, removed or changed.
C3_ZeroIterations ==
  [][(ret'.op = "train_model" /\ ret'.n = 0) => trans_prob' = trans_prob]_vars

C3_Witness ==
  /\ ret.op = "train_model"
  /\ ret.n = 0
  /\ iters >= 1
  /\ Len(trans_prob) > 0

\* C4: get_max on an index just built from the table returns, for a source
\* token f with entries, the maximum stored probability of the table's
\* entries (e, f), and for an f without entries (None, 0).
C4_IndexConsistency ==
  [][(ret.op = "cond_dict" /\ ret'.op = "get_max") =>
        LET col == Column(trans_prob, ret'.key[1])
        IN IF col = {} THEN ret'.word = "None" /\ ret'.p = 0
                       ELSE ret'.p = SetMax(col)]_vars

\* C5, as claimed: on the toy corpus get("dog", "perro") comes to exceed its
\* initial value and get("dog", "NULL").
C5_Convergence ==
  (AllToy /\ iters = MaxTrain) =>
     /\ TableGet(trans_prob, <<"dog", "perro">>, num_f_words) > DefaultProb(num_f_words)
     /\ TableGet(trans_prob, <<"dog", "perro">>, num_f_words)
          > TableGet(trans_prob, <<"dog", "NULL">>, num_f_words)

\* C5, amended: on the toy corpus get("dog", "perro") and get("dog", "NULL")
\* are 1/2 before training and after every iteration.
C5_ToyFixedPoint ==
  AllToy =>
     /\ TableGet(trans_prob, <<"dog", "perro">>, num_f_words) = Half
     /\ TableGet(trans_prob, <<"dog", "NULL">>, num_f_words) = Half

C5_Witness ==
  /\ AllToy
  /\ Len(lines) = MaxLines
  /\ iters = MaxTrain
  /\ ret.op = "train_model"
  /\ HasKey(trans_prob, <<"dog", "perro">>)

\* C6: a lookup, building the index, querying it and printing the report
\* leave the table's entries and their values unchanged.
C6_OnlyTrainingMutates ==
  [][(ret'.op \in {"getitem", "cond_dict", "get_max", "print"})
        => trans_prob' = trans_prob]_vars

\* C7: in an iteration, the divisor sentence_total[e] used for sentence pair
\* (E, F) is the sum over f in F of get(e, f) for that pair alone.
C7_PerSentenceTotal ==
  [][(ret'.op = "train_model" /\ ret'.n >= 1) =>
        \A k \in 1..Len(corpus) : \A a \in 1..Len(corpus[k][1]) :
           EStep(corpus, trans_prob, num_f_words, k).st[corpus[k][1][a]]
             = OwnTotal(trans_prob, num_f_words, corpus[k][1][a],
                        corpus[k][2], Len(corpus[k][2]))]_vars

\* C8: the table one iteration produces is the same for every ordering of the
\* sentence pairs, and its counts are the sums of the counts each sentence
\* pair gives alone.
C8_OrderIndependent ==
  [][(ret'.op = "train_model" /\ ret'.n = 1) =>
        /\ \A c \in Orderings(corpus) :
              SameTable(trans_prob', Iteration(c, trans_prob, num_f_words))
        /\ LET r == EStep(corpus, trans_prob, num_f_words, Len(corpus))
           IN \A key \in DOMAIN r.cnt :
                 Abs(r.cnt[key] - MergedCount(corpus, trans_prob, num_f_words,
                                              key, Len(corpus))) <= Tol]_vars

\* C9: after every call of cond_dict the list of each source token f holds
\* exactly the (target token, probability) pairs of the table's entries
\* (e, f), each once.
C9_RebuiltIndex ==
  (ret.op = "cond_dict") =>
     \A f \in FWords :
        LET list == IF f \in DOMAIN conditional_dict THEN conditional_dict[f] ELSE <<>>
        IN /\ { list[i] : i \in 1..Len(list) } = ColumnPairs(trans_prob, f)
           /\ Len(list) = Cardinality(ColumnPairs(trans_prob, f))

\* C10: the corpus holds one sentence pair per line read, in line order.
C10_OnePairPerLine ==
  /\ Len(corpus) = Len(lines)
  /\ \A i \in 1..Len(lines) : i <= Len(corpus) => corpus[i] = lines[i]

====
